---------------------------- MODULE Spec2Model ----------------------------
(***************************************************************************)
(* A model of panels/_locators.py: PanelSizeLocator, FigureSizeLocator and *)
(* the static method FigureSizeLocator.panel_size.                         *)
(*                                                                         *)
(* Numbers.  The lengths are Python numbers.  They are modelled as exact   *)
(* rationals [n |-> numerator, d |-> denominator], kept in lowest terms    *)
(* with d > 0, so that equal numbers are equal records.  Floating-point    *)
(* rounding is not modelled.                                               *)
(*                                                                         *)
(* Optional arguments (figwidth=None, ...) are sequences: <<>> is None and *)
(* <<v>> is the value v.  A separation argument is either a scalar or a    *)
(* sequence; the tag records what isinstance(x, Sequence) answers.         *)
(***************************************************************************)
EXTENDS Integers, Sequences, FiniteSets, TLC

VARIABLES
    last,       \* the name of the last call made ("start" before any)
    args,       \* the arguments of the last constructor or panel_size call
    index,      \* <<row, column>> of the last panel_position call, else <<>>
    loc,        \* the locator the last constructor call produced, or NoLocator
    ret,        \* what the last call returned (<<>> when it returned nothing)
    err,        \* the exception the last call raised, or NoError
    warned,     \* whether the last call issued a warning (warnings.warn)
    gen,        \* the generator panel_position_iterator returned, or NoGen
    yielded     \* the rectangles taken from gen so far, in order

vars == <<last, args, index, loc, ret, err, warned, gen, yielded>>

---------------------------------------------------------------------------
(* Bounds of the model and the values the arguments are drawn from. *)

MaxRows == 2

MaxColumns == 3

PanelWidths == {10}

PanelHeights == {20}

SepScalars == {1, 2}

SepItems == {1, 2}

\* <<padleft, padright, padtop, padbottom>>
Paddings == {<<0, 0, 0, 0>>, <<5, 5, 5, 5>>, <<1, 2, 3, 4>>}

FigWidths == {5, 42}

FigHeights == {4, 52}

Panelratios == {0 - 1, 0, 2}

Orders == {"row", "column", "diagonal"}

---------------------------------------------------------------------------
(* Exact rational arithmetic. *)

Abs(x) == IF x < 0 THEN 0 - x ELSE x

Min(a, b) == IF a <= b THEN a ELSE b

RECURSIVE Gcd(_, _)
Gcd(a, b) == IF b = 0 THEN a ELSE Gcd(b, a % b)

\* The rational n/d (d # 0) in lowest terms with a positive denominator.
Rat(n, d) ==
    LET g == Gcd(Abs(n), Abs(d))
        s == IF d < 0 THEN 0 - 1 ELSE 1
    IN  [n |-> (s * n) \div g, d |-> (s * d) \div g]

R(i) == [n |-> i, d |-> 1]

RAdd(a, b) == Rat(a.n * b.d + b.n * a.d, a.d * b.d)

RSub(a, b) == Rat(a.n * b.d - b.n * a.d, a.d * b.d)

RMul(a, b) == Rat(a.n * b.n, a.d * b.d)

\* a / b, for b # 0
RDiv(a, b) == Rat(a.n * b.d, a.d * b.n)

RLeq(a, b) == a.n * b.d <= b.n * a.d

RLt(a, b) == a.n * b.d < b.n * a.d

RZero == R(0)

ROne == R(1)

\* sum(s) of a sequence of rationals
RECURSIVE RSum(_)
RSum(s) == IF s = <<>> THEN RZero ELSE RAdd(Head(s), RSum(Tail(s)))

\* s[:k] for k >= 0
Slice(s, k) == SubSeq(s, 1, Min(k, Len(s)))

\* [v] * n
Repeat(v, n) == [i \in 1 .. (IF n < 0 THEN 0 ELSE n) |-> v]

\* All sequences over S of length at most n.
SeqsUpTo(S, n) == UNION {[1 .. k -> S] : k \in 0 .. n}

---------------------------------------------------------------------------
(* Values. *)

None == <<>>

Some(v) == <<v>>

IsNone(o) == o = <<>>

Opt(S) == {None} \cup {Some(v) : v \in S}

\* A separation argument: a scalar (held in a sequence of one, its value is
\* x.v[1]), or a sequence of scalars (x.v).
Scalar(v) == [seq |-> FALSE, v |-> <<R(v)>>]

Sequence(s) == [seq |-> TRUE, v |-> [i \in 1 .. Len(s) |-> R(s[i])]]

\* isinstance(x, collections.abc.Sequence)
IsSequence(x) == x.seq

NoError == [type |-> "None", msg |-> ""]

ValueError(m) == [type |-> "ValueError", msg |-> m]

ZeroDivisionError == [type |-> "ZeroDivisionError", msg |-> "division by zero"]

StopIteration == [type |-> "StopIteration", msg |-> ""]

NoLocator == [class |-> "None"]

NoGen == [order |-> "None"]

NoArgs == [rows |-> 0]

---------------------------------------------------------------------------
(* PanelSizeLocator *)

HsepLengthMsg == "If hsep is a sequence, it must have one fewer value than the number of columns"

VsepLengthMsg == "If vsep is a sequence, it must have one fewer value than the number of rows"

\* A mutant of LengthMismatch: a sequence that is too short passes.
LengthMismatch_OnlyTooLong(sep, n) == Len(sep.v) > n - 1

\* len(hsep) != columns - 1, len(vsep) != rows - 1
LengthMismatch(sep, n) == Len(sep.v) # n - 1

\* A mutant of SelfHsep: the scalar is repeated once per column.
SelfHsep_OncePerColumn(hsep, columns) ==
    IF IsSequence(hsep) THEN hsep.v ELSE Repeat(hsep.v[1], columns)

\* self.hsep as __init__ stores it: the sequence itself, or the scalar repeated.
SelfHsep(hsep, columns) ==
    IF IsSequence(hsep) THEN hsep.v ELSE Repeat(hsep.v[1], columns - 1)

\* self.vsep as __init__ stores it.
SelfVsep(vsep, rows) ==
    IF IsSequence(vsep) THEN vsep.v ELSE Repeat(vsep.v[1], rows - 1)

\* A mutant of Figwidth: the right padding is left out.
Figwidth_NoPadright(self) ==
    RAdd(RAdd(self.padleft, RMul(R(self.columns), self.panelwidth)),
         RSum(self.hsep))

\* self.figwidth
Figwidth(self) ==
    RAdd(RAdd(RAdd(self.padleft, RMul(R(self.columns), self.panelwidth)),
              RSum(self.hsep)),
         self.padright)

\* A mutant of Figheight: the top padding is left out.
Figheight_NoPadtop(self) ==
    RAdd(RAdd(RMul(R(self.rows), self.panelheight), RSum(self.vsep)),
         self.padbottom)

\* self.figheight
Figheight(self) ==
    RAdd(RAdd(RAdd(self.padtop, RMul(R(self.rows), self.panelheight)),
              RSum(self.vsep)),
         self.padbottom)

\* PanelSizeLocator.__init__ on an object of class cls.  a holds the arguments
\* under the names of the parameters.  The result is the exception raised and
\* the object built (NoLocator when the constructor raised).
PanelSizeLocator_init(cls, a) ==
    LET fields == [class |-> cls,
                   rows |-> a.rows, columns |-> a.columns,
                   panelwidth |-> a.panelwidth, panelheight |-> a.panelheight,
                   hsep |-> SelfHsep(a.hsep, a.columns),
                   vsep |-> SelfVsep(a.vsep, a.rows),
                   padleft |-> a.padleft, padright |-> a.padright,
                   padtop |-> a.padtop, padbottom |-> a.padbottom,
                   units |-> a.units]
        figwidth == Figwidth(fields)
        figheight == Figheight(fields)
    IN  IF IsSequence(a.hsep) /\ LengthMismatch(a.hsep, a.columns)
        THEN [err |-> ValueError(HsepLengthMsg), obj |-> NoLocator]
        ELSE IF IsSequence(a.vsep) /\ LengthMismatch(a.vsep, a.rows)
        THEN [err |-> ValueError(VsepLengthMsg), obj |-> NoLocator]
        ELSE IF figwidth = RZero \/ figheight = RZero
        THEN [err |-> ZeroDivisionError, obj |-> NoLocator]
        ELSE [err |-> NoError,
              obj |-> [class |-> cls,
                       rows |-> a.rows, columns |-> a.columns,
                       panelwidth |-> a.panelwidth,
                       panelheight |-> a.panelheight,
                       hsep |-> fields.hsep, vsep |-> fields.vsep,
                       padleft |-> a.padleft, padright |-> a.padright,
                       padtop |-> a.padtop, padbottom |-> a.padbottom,
                       units |-> a.units,
                       figwidth |-> figwidth, figheight |-> figheight,
                       panelwidth_fig |-> RDiv(a.panelwidth, figwidth),
                       panelheight_fig |-> RDiv(a.panelheight, figheight)]]

\* A mutant of panel_position: y is the top edge of the panel, not its bottom
\* edge (row in place of row + 1).
panel_position_TopEdge(self, row, column) ==
    LET x == RAdd(RAdd(self.padleft, RMul(self.panelwidth, R(column))),
                  RSum(Slice(self.hsep, column)))
        y == RSub(RSub(RSub(self.figheight, self.padtop),
                       RMul(self.panelheight, R(row))),
                  RSum(Slice(self.vsep, row)))
    IN  <<RDiv(x, self.figwidth), RDiv(y, self.figheight),
          self.panelwidth_fig, self.panelheight_fig>>

\* PanelSizeLocator.panel_position(row, column), for row, column >= 0.
panel_position(self, row, column) ==
    LET x == RAdd(RAdd(self.padleft, RMul(self.panelwidth, R(column))),
                  RSum(Slice(self.hsep, column)))
        y == RSub(RSub(RSub(self.figheight, self.padtop),
                       RMul(self.panelheight, R(row + 1))),
                  RSum(Slice(self.vsep, row)))
        x_fig == RDiv(x, self.figwidth)
        y_fig == RDiv(y, self.figheight)
    IN  <<x_fig, y_fig, self.panelwidth_fig, self.panelheight_fig>>

OrderMsg == "the order keyword must be either \"row\" or \"column\""

\* itertools.product(range(m), range(n)): the pairs in lexicographic order.
Product(m, n) == [k \in 1 .. m * n |-> <<(k - 1) \div n, (k - 1) % n>>]

\* A mutant of OrderTable: the entry of "column" swaps the ranges but not the
\* indices.
OrderTable_IndicesNotSwapped(self, order) ==
    IF order = "row"
    THEN [i0 |-> 1, i1 |-> 2, g0 |-> self.rows, g1 |-> self.columns]
    ELSE [i0 |-> 1, i1 |-> 2, g0 |-> self.columns, g1 |-> self.rows]

\* The table panel_position_iterator looks order up in: which component of a
\* pair is the row (i0) and which the column (i1), and the two ranges (their
\* lengths).  Tuples are 1-indexed here, 0-indexed in the source.
OrderTable(self, order) ==
    IF order = "row"
    THEN [i0 |-> 1, i1 |-> 2, g0 |-> self.rows, g1 |-> self.columns]
    ELSE [i0 |-> 2, i1 |-> 1, g0 |-> self.columns, g1 |-> self.rows]

\* The generator panel_position_iterator returns: the pairs still to visit are
\* pairs[pos + 1 ..].
NewGenerator(self, order) ==
    LET t == OrderTable(self, order)
    IN  [order |-> order, i0 |-> t.i0, i1 |-> t.i1,
         pairs |-> Product(t.g0, t.g1), pos |-> 0]

---------------------------------------------------------------------------
(* FigureSizeLocator *)

NoFigsizeMsg == "one or both of the \"figwidth\" and \"figheight\" keywords must be used"

DimensionsMsg == "the specified dimensions are not large enough tolocate panels with the desired separation and padding"

HeightMsg == "the specified figure height is not tall enough to locate panels with the desired separation and padding"

WidthMsg == "the specified figure width is not wide enough to locate panels with the desired separation and padding"

\* A mutant of PanelratioOr1: the ratio is ignored.
PanelratioOr1_Ignored(panelratio) == ROne

\* (panelratio or 1.): None and 0 are both falsy.
PanelratioOr1(panelratio) ==
    IF IsNone(panelratio) \/ panelratio = Some(RZero)
    THEN ROne
    ELSE panelratio[1]

\* A mutant of WidthOfPanel: the right padding is not taken off.
WidthOfPanel_NoPadright(figwidth, hsep, padleft, padright, columns) ==
    RDiv(RSub(RSub(figwidth, RSum(hsep)), padleft), R(columns))

\* (figwidth - sum(hsep) - padleft - padright) / float(columns)
WidthOfPanel(figwidth, hsep, padleft, padright, columns) ==
    RDiv(RSub(RSub(RSub(figwidth, RSum(hsep)), padleft), padright), R(columns))

\* (figheight - sum(vsep) - padtop - padbottom) / float(rows)
HeightOfPanel(figheight, vsep, padtop, padbottom, rows) ==
    RDiv(RSub(RSub(RSub(figheight, RSum(vsep)), padtop), padbottom), R(rows))

\* The test of the branch where both figwidth and figheight are given.
BothTooSmall(panelwidth, panelheight) ==
    RLeq(panelwidth, RZero) \/ RLeq(panelheight, RZero)

\* FigureSizeLocator.panel_size.  The result is the exception raised, whether
\* a warning was issued, and the pair returned (<<>> when it raised).
panel_size(a) ==
    LET hsep == IF IsSequence(a.hsep) THEN a.hsep.v
                ELSE Repeat(a.hsep.v[1], a.columns - 1)
        vsep == IF IsSequence(a.vsep) THEN a.vsep.v
                ELSE Repeat(a.vsep.v[1], a.rows - 1)
        Raise(e, w) == [err |-> e, warned |-> w, ret |-> <<>>]
        Return(pw, ph, w) == [err |-> NoError, warned |-> w, ret |-> <<pw, ph>>]
    IN  IF IsNone(a.figwidth) /\ IsNone(a.figheight)
        THEN Raise(ValueError(NoFigsizeMsg), FALSE)
        ELSE IF IsSequence(a.hsep) /\ LengthMismatch(a.hsep, a.columns)
        THEN Raise(ValueError(HsepLengthMsg), FALSE)
        ELSE IF IsSequence(a.vsep) /\ LengthMismatch(a.vsep, a.rows)
        THEN Raise(ValueError(VsepLengthMsg), FALSE)
        ELSE IF ~IsNone(a.figwidth) /\ ~IsNone(a.figheight)
        THEN LET w == ~IsNone(a.panelratio)
                 panelwidth == WidthOfPanel(a.figwidth[1], hsep, a.padleft,
                                            a.padright, a.columns)
                 panelheight == HeightOfPanel(a.figheight[1], vsep, a.padtop,
                                              a.padbottom, a.rows)
             IN  IF BothTooSmall(panelwidth, panelheight)
                 THEN Raise(ValueError(DimensionsMsg), w)
                 ELSE Return(panelwidth, panelheight, w)
        ELSE IF IsNone(a.figwidth)
        THEN LET panelheight == HeightOfPanel(a.figheight[1], vsep, a.padtop,
                                              a.padbottom, a.rows)
             IN  IF RLeq(panelheight, RZero)
                 THEN Raise(ValueError(HeightMsg), FALSE)
                 ELSE Return(RMul(panelheight, PanelratioOr1(a.panelratio)),
                             panelheight, FALSE)
        ELSE LET panelwidth == WidthOfPanel(a.figwidth[1], hsep, a.padleft,
                                            a.padright, a.columns)
             IN  IF RLeq(panelwidth, RZero)
                 THEN Raise(ValueError(WidthMsg), FALSE)
                 ELSE Return(panelwidth,
                             RDiv(panelwidth, PanelratioOr1(a.panelratio)),
                             FALSE)

\* FigureSizeLocator.__init__: panel_size, then the PanelSizeLocator
\* constructor with the panel size it returned.
FigureSizeLocator_init(a) ==
    LET ps == panel_size(a)
    IN  IF ps.err # NoError
        THEN [err |-> ps.err, warned |-> ps.warned, obj |-> NoLocator]
        ELSE LET r == PanelSizeLocator_init("FigureSizeLocator",
                        [rows |-> a.rows, columns |-> a.columns,
                         panelwidth |-> ps.ret[1], panelheight |-> ps.ret[2],
                         hsep |-> a.hsep, vsep |-> a.vsep,
                         padleft |-> a.padleft, padright |-> a.padright,
                         padtop |-> a.padtop, padbottom |-> a.padbottom,
                         units |-> a.units])
             IN  [err |-> r.err, warned |-> ps.warned, obj |-> r.obj]

---------------------------------------------------------------------------
(* The calls a program makes. *)

\* The separation arguments tried: scalars, and sequences of every length up
\* to n (so of the right length, too short and too long).
SepArgs(n) ==
    {Scalar(v) : v \in SepScalars} \cup {Sequence(s) : s \in SeqsUpTo(SepItems, n)}

\* The separation arguments tried with a figure size: scalars, and for every
\* length up to n the sequence 1, 2, ..., of that length.
FigureSepArgs(n) ==
    {Scalar(v) : v \in SepScalars} \cup {Sequence([i \in 1 .. k |-> i]) : k \in 0 .. n}

Init ==
    /\ last = "start"
    /\ args = NoArgs
    /\ index = <<>>
    /\ loc = NoLocator
    /\ ret = <<>>
    /\ err = NoError
    /\ warned = FALSE
    /\ gen = NoGen
    /\ yielded = <<>>

\* loc = PanelSizeLocator(rows, columns, panelwidth, panelheight, ...)
NewPanelSizeLocator ==
    /\ last = "start"
    /\ \E rows \in 1 .. MaxRows, columns \in 1 .. MaxColumns,
          panelwidth \in PanelWidths, panelheight \in PanelHeights,
          hsep \in SepArgs(MaxColumns), vsep \in SepArgs(MaxRows),
          pad \in Paddings :
          LET a == [rows |-> rows, columns |-> columns,
                    panelwidth |-> R(panelwidth), panelheight |-> R(panelheight),
                    hsep |-> hsep, vsep |-> vsep,
                    padleft |-> R(pad[1]), padright |-> R(pad[2]),
                    padtop |-> R(pad[3]), padbottom |-> R(pad[4]),
                    units |-> "mm"]
              r == PanelSizeLocator_init("PanelSizeLocator", a)
          IN  /\ last' = "PanelSizeLocator"
              /\ args' = a
              /\ loc' = r.obj
              /\ err' = r.err
    /\ UNCHANGED <<index, ret, warned, gen, yielded>>

\* The keyword arguments of FigureSizeLocator and of panel_size.
FigureArgs ==
    {[rows |-> rows, columns |-> columns,
      figwidth |-> figwidth, figheight |-> figheight, panelratio |-> panelratio,
      hsep |-> hsep, vsep |-> vsep,
      padleft |-> R(pad[1]), padright |-> R(pad[2]),
      padtop |-> R(pad[3]), padbottom |-> R(pad[4]),
      units |-> "mm"] :
      rows \in 1 .. MaxRows, columns \in 1 .. MaxColumns,
      figwidth \in Opt({R(v) : v \in FigWidths}),
      figheight \in Opt({R(v) : v \in FigHeights}),
      panelratio \in Opt({R(v) : v \in Panelratios}),
      hsep \in FigureSepArgs(MaxColumns), vsep \in FigureSepArgs(MaxRows),
      pad \in Paddings}

\* loc = FigureSizeLocator(rows, columns, figwidth=..., ...)
NewFigureSizeLocator ==
    /\ last = "start"
    /\ \E a \in FigureArgs :
          LET r == FigureSizeLocator_init(a)
          IN  /\ last' = "FigureSizeLocator"
              /\ args' = a
              /\ loc' = r.obj
              /\ err' = r.err
              /\ warned' = r.warned
    /\ UNCHANGED <<index, ret, gen, yielded>>

\* FigureSizeLocator.panel_size(rows, columns, figwidth=..., ...)
CallPanelSize ==
    /\ last = "start"
    /\ \E a \in FigureArgs :
          LET r == panel_size(a)
          IN  /\ last' = "panel_size"
              /\ args' = a
              /\ ret' = r.ret
              /\ err' = r.err
              /\ warned' = r.warned
    /\ UNCHANGED <<index, loc, gen, yielded>>

\* loc.panel_position(row, column), also one past the last row and column.
\* Made while no generator is held, which keeps the state space small: the
\* call reads loc alone.
CallPanelPosition ==
    /\ loc # NoLocator
    /\ gen = NoGen
    /\ \E row \in 0 .. loc.rows, column \in 0 .. loc.columns :
          /\ last' = "panel_position"
          /\ index' = <<row, column>>
          /\ ret' = panel_position(loc, row, column)
    /\ err' = NoError
    /\ warned' = FALSE
    /\ UNCHANGED <<args, loc, gen, yielded>>

\* gen = loc.panel_position_iterator(order)
CallPanelPositionIterator ==
    /\ loc # NoLocator
    /\ \E order \in Orders :
          /\ last' = "panel_position_iterator"
          /\ IF order \in {"row", "column"}
             THEN /\ gen' = NewGenerator(loc, order)
                  /\ err' = NoError
             ELSE /\ gen' = NoGen
                  /\ err' = ValueError(OrderMsg)
    /\ index' = <<>>
    /\ ret' = <<>>
    /\ yielded' = <<>>
    /\ warned' = FALSE
    /\ UNCHANGED <<args, loc>>

\* next(gen)
NextPanelPosition ==
    /\ gen # NoGen
    /\ last' = "next"
    /\ IF gen.pos < Len(gen.pairs)
       THEN LET x == gen.pairs[gen.pos + 1]
                p == panel_position(loc, x[gen.i0], x[gen.i1])
            IN  /\ ret' = p
                /\ yielded' = Append(yielded, p)
                /\ gen' = [gen EXCEPT !.pos = @ + 1]
                /\ err' = NoError
       ELSE /\ ret' = <<>>
            /\ err' = StopIteration
            /\ UNCHANGED <<gen, yielded>>
    /\ index' = <<>>
    /\ warned' = FALSE
    /\ UNCHANGED <<args, loc>>

Next ==
    \/ NewPanelSizeLocator
    \/ NewFigureSizeLocator
    \/ CallPanelSize
    \/ CallPanelPosition
    \/ CallPanelPositionIterator
    \/ NextPanelPosition

Spec == Init /\ [][Next]_vars

---------------------------------------------------------------------------
(* What the claims are stated with. *)

\* s[1] + ... + s[k], summed by index.
RECURSIVE PrefixSum(_, _)
PrefixSum(s, k) == IF k = 0 THEN RZero ELSE RAdd(PrefixSum(s, k - 1), s[k])

\* The total of a separation argument given for n panels in a line: the sum of
\* a sequence, (n - 1) times a scalar.
SepTotal(sep, n) ==
    IF sep.seq THEN PrefixSum(sep.v, Len(sep.v)) ELSE RMul(R(n - 1), sep.v[1])

\* A separation argument is a sequence of the wrong length for n panels.
WrongLength(sep, n) == sep.seq /\ Len(sep.v) # n - 1

HasLocator == loc # NoLocator

IsPanelSizeLocator == HasLocator /\ loc.class = "PanelSizeLocator"

IsFigureSizeLocator == HasLocator /\ loc.class = "FigureSizeLocator"

InRange(row, column) == row \in 0 .. loc.rows - 1 /\ column \in 0 .. loc.columns - 1

\* The last call was panel_position with an in-range row and column.
PositionCalled == last = "panel_position" /\ InRange(index[1], index[2])

\* The data model's locator: positive panel size, no negative separation or
\* padding.
WellFormed(l) ==
    /\ RLt(RZero, l.panelwidth) /\ RLt(RZero, l.panelheight)
    /\ \A i \in 1 .. Len(l.hsep) : RLeq(RZero, l.hsep[i])
    /\ \A i \in 1 .. Len(l.vsep) : RLeq(RZero, l.vsep[i])
    /\ RLeq(RZero, l.padleft) /\ RLeq(RZero, l.padright)
    /\ RLeq(RZero, l.padtop) /\ RLeq(RZero, l.padbottom)

\* rows=2, columns=3, hsep=1, vsep=2, every padding 5
ExampleGrid(a) ==
    /\ a.rows = 2 /\ a.columns = 3
    /\ a.hsep = Scalar(1) /\ a.vsep = Scalar(2)
    /\ a.padleft = R(5) /\ a.padright = R(5)
    /\ a.padtop = R(5) /\ a.padbottom = R(5)

---------------------------------------------------------------------------
(* C1: every PanelSizeLocator stores figwidth = padleft + columns*panelwidth  *)
(* + sum(hsep) + padright and figheight = padtop + rows*panelheight +         *)
(* sum(vsep) + padbottom, a scalar separation counting columns-1 (rows-1)     *)
(* times; the 2x3 grid of 10x20 panels with hsep=1, vsep=2 and paddings 5 is  *)
(* 42 x 52.                                                                   *)
C1_FigureSizeAdditive ==
    IsPanelSizeLocator =>
        /\ loc.figwidth =
              RAdd(RAdd(args.padleft, args.padright),
                   RAdd(RMul(args.panelwidth, R(args.columns)),
                        SepTotal(args.hsep, args.columns)))
        /\ loc.figheight =
              RAdd(RAdd(args.padtop, args.padbottom),
                   RAdd(RMul(args.panelheight, R(args.rows)),
                        SepTotal(args.vsep, args.rows)))
        /\ (ExampleGrid(args) /\ args.panelwidth = R(10) /\ args.panelheight = R(20)
              => loc.figwidth = R(42) /\ loc.figheight = R(52))

C1_Witness ==
    /\ IsPanelSizeLocator
    /\ last = "PanelSizeLocator"
    /\ ExampleGrid(args) /\ args.panelwidth = R(10) /\ args.panelheight = R(20)
    /\ loc.figwidth = R(42) /\ loc.figheight = R(52)

(* C2: panel_position(row, column) of an in-range pair is (x, y, w, h) with  *)
(* x = (padleft + panelwidth*column + sum(hsep[0:column])) / figwidth,       *)
(* y = (figheight - padtop - panelheight*(row+1) - sum(vsep[0:row])) /       *)
(* figheight, w = panelwidth/figwidth, h = panelheight/figheight.            *)
C2_Formulas ==
    PositionCalled =>
        LET row == index[1]
            column == index[2]
        IN  /\ Len(ret) = 4
            /\ RMul(ret[1], loc.figwidth) =
                  RAdd(loc.padleft,
                       RAdd(RMul(R(column), loc.panelwidth),
                            PrefixSum(loc.hsep, column)))
            /\ RMul(ret[2], loc.figheight) =
                  RSub(loc.figheight,
                       RAdd(loc.padtop,
                            RAdd(RMul(R(row + 1), loc.panelheight),
                                 PrefixSum(loc.vsep, row))))
            /\ RMul(ret[3], loc.figwidth) = loc.panelwidth
            /\ RMul(ret[4], loc.figheight) = loc.panelheight

(* C2, the reading of the formulas: row 0 is the topmost row (no in-range    *)
(* row has a larger y, and only row 0 has its y) and column 0 the leftmost   *)
(* column (no in-range column has a smaller x, and only column 0 has its x). *)
C2_TopLeft ==
    PositionCalled =>
        LET row == index[1]
            column == index[2]
            top == panel_position(loc, 0, column)
            left == panel_position(loc, row, 0)
        IN  /\ RLeq(ret[2], top[2])
            /\ (row # 0 => ret[2] # top[2])
            /\ RLeq(left[1], ret[1])
            /\ (column # 0 => ret[1] # left[1])

(* C2 as a whole: for every locator and every in-range (row, column), the    *)
(* formulas, with row 0 the topmost row and column 0 the leftmost column.    *)
C2_PanelPosition == C2_Formulas /\ C2_TopLeft


(* C3: for a locator with positive panel size and no negative separation or  *)
(* padding, the rectangle of every in-range (row, column) lies in the unit   *)
(* square, 0 <= x, x + width <= 1, 0 <= y, y + height <= 1, and the top edge *)
(* y + height of row 0, column 0 is 1 - padtop/figheight.                    *)
C3_WithinUnitSquare ==
    PositionCalled /\ WellFormed(loc) =>
        /\ RLeq(RZero, ret[1])
        /\ RLeq(RAdd(ret[1], ret[3]), ROne)
        /\ RLeq(RZero, ret[2])
        /\ RLeq(RAdd(ret[2], ret[4]), ROne)
        /\ (index = <<0, 0>> =>
              RAdd(ret[2], ret[4]) = RSub(ROne, RDiv(loc.padtop, loc.figheight)))

\* The bottom right panel of a grid with paddings: its rectangle is inside the
\* square, and the top left panel's top edge is below 1.
C3_Witness ==
    /\ PositionCalled /\ WellFormed(loc)
    /\ index = <<loc.rows - 1, loc.columns - 1>>
    /\ loc.rows = 2 /\ loc.columns = 3
    /\ loc.padright = R(2) /\ loc.padbottom = R(4)
    /\ RLt(RAdd(ret[1], ret[3]), ROne)
    /\ RLt(RZero, ret[2])

\* The (row, column) the k-th rectangle (k = 1, 2, ...) of an enumeration in
\* the given order is for: row-major, or column-major.
PairOf(order, k, rows, columns) ==
    IF order = "row"
    THEN <<(k - 1) \div columns, (k - 1) % columns>>
    ELSE <<(k - 1) % rows, (k - 1) \div rows>>

\* The (row, column) pairs a generator visits, in order.
Visits(g) == [k \in 1 .. Len(g.pairs) |-> <<g.pairs[k][g.i0], g.pairs[k][g.i1]>>]

(* C4: the generator of panel_position_iterator(order) yields rows*columns   *)
(* rectangles, the k-th being panel_position of the k-th pair in row-major   *)
(* order for "row" and in column-major order for "column": each in-range     *)
(* pair once; it is exhausted exactly after rows*columns of them.  For a 2x3 *)
(* grid the pairs are (0,0),(0,1),(0,2),(1,0),(1,1),(1,2) for "row" and      *)
(* (0,0),(1,0),(0,1),(1,1),(0,2),(1,2) for "column".                         *)
C4_IteratorOrder ==
    gen # NoGen =>
        LET n == loc.rows * loc.columns
            pair(k) == PairOf(gen.order, k, loc.rows, loc.columns)
        IN  /\ gen.order \in {"row", "column"}
            /\ Len(yielded) = gen.pos
            /\ Len(yielded) <= n
            /\ (err = StopIteration <=> last = "next" /\ ret = <<>>)
            /\ (err = StopIteration => Len(yielded) = n)
            /\ (last = "next" /\ err = NoError => ret = yielded[Len(yielded)])
            /\ \A k \in 1 .. Len(yielded) :
                  /\ InRange(pair(k)[1], pair(k)[2])
                  /\ yielded[k] = panel_position(loc, pair(k)[1], pair(k)[2])
            /\ \A j, k \in 1 .. n : j # k => pair(j) # pair(k)
            /\ Len(Visits(gen)) = n
            /\ \A k \in 1 .. n : Visits(gen)[k] = pair(k)
            /\ (loc.rows = 2 /\ loc.columns = 3 /\ gen.order = "row" =>
                  Visits(gen) = <<<<0, 0>>, <<0, 1>>, <<0, 2>>,
                                  <<1, 0>>, <<1, 1>>, <<1, 2>>>>)
            /\ (loc.rows = 2 /\ loc.columns = 3 /\ gen.order = "column" =>
                  Visits(gen) = <<<<0, 0>>, <<1, 0>>, <<0, 1>>,
                                  <<1, 1>>, <<0, 2>>, <<1, 2>>>>)

\* A column-major enumeration of a 2x3 grid run to its end.
C4_Witness ==
    /\ gen # NoGen /\ gen.order = "column"
    /\ loc.rows = 2 /\ loc.columns = 3
    /\ err = StopIteration
    /\ Len(yielded) = 6
    /\ yielded[2] = panel_position(loc, 1, 0)
    /\ yielded[2] # panel_position(loc, 0, 1)

\* FigureSizeLocator(rows, columns, figwidth=P.figwidth, figheight=P.figheight,
\* ...) for the PanelSizeLocator P in loc, built with the arguments a.
EquivalentFigureSizeLocator(P, a) ==
    FigureSizeLocator_init(
        [rows |-> a.rows, columns |-> a.columns,
         figwidth |-> Some(P.figwidth), figheight |-> Some(P.figheight),
         panelratio |-> None, hsep |-> a.hsep, vsep |-> a.vsep,
         padleft |-> a.padleft, padright |-> a.padright,
         padtop |-> a.padtop, padbottom |-> a.padbottom, units |-> a.units])

FigureCall == last \in {"panel_size", "FigureSizeLocator"}

\* The last call was a constructor or panel_size.
SizingCall == last \in {"PanelSizeLocator", "panel_size", "FigureSizeLocator"}

(* C6: panel_size never returns a pair with a non-positive dimension,        *)
(* whichever of figwidth and figheight is given and also for the dimension   *)
(* derived through panelratio, and no FigureSizeLocator has one.             *)
C6_NoNonPositiveDimension ==
    /\ last = "panel_size" /\ err = NoError =>
          RLt(RZero, ret[1]) /\ RLt(RZero, ret[2])
    /\ IsFigureSizeLocator =>
          RLt(RZero, loc.panelwidth) /\ RLt(RZero, loc.panelheight)

\* The error names a separation argument that is of the wrong length.
NamesWrongArgument ==
    \/ err = ValueError(HsepLengthMsg) /\ WrongLength(args.hsep, args.columns)
    \/ err = ValueError(VsepLengthMsg) /\ WrongLength(args.vsep, args.rows)

\* A scalar separation is not rejected for its length, and a locator holds it
\* as columns-1 (rows-1) equal entries.
ScalarBroadcast ==
    /\ ~args.hsep.seq =>
          /\ err # ValueError(HsepLengthMsg)
          /\ HasLocator => loc.hsep = [i \in 1 .. args.columns - 1 |-> args.hsep.v[1]]
    /\ ~args.vsep.seq =>
          /\ err # ValueError(VsepLengthMsg)
          /\ HasLocator => loc.vsep = [i \in 1 .. args.rows - 1 |-> args.vsep.v[1]]
    /\ ~args.hsep.seq /\ ~args.vsep.seq /\ last = "PanelSizeLocator" => HasLocator

(* C7 as stated: a constructor or panel_size call given an hsep sequence not  *)
(* of length columns-1, or a vsep sequence not of length rows-1, fails with   *)
(* the ValueError that names a wrongly sized argument, and produces nothing;  *)
(* a scalar is never rejected and is broadcast.                               *)
C7_AsStated ==
    SizingCall =>
        /\ WrongLength(args.hsep, args.columns) \/ WrongLength(args.vsep, args.rows) =>
              /\ NamesWrongArgument
              /\ loc = NoLocator /\ ret = <<>>
        /\ ScalarBroadcast

(* C7 as amended: such a call fails with a ValueError and produces nothing;   *)
(* the error is the one naming hsep when hsep is of the wrong length, else    *)
(* the one naming vsep, except that panel_size and FigureSizeLocator given    *)
(* neither figwidth nor figheight fail with the error about those two first.  *)
(* A scalar is never rejected for its length and is broadcast.                *)
C7_SequenceLength ==
    SizingCall =>
        /\ WrongLength(args.hsep, args.columns) \/ WrongLength(args.vsep, args.rows) =>
              /\ err.type = "ValueError"
              /\ loc = NoLocator /\ ret = <<>>
              /\ IF FigureCall /\ IsNone(args.figwidth) /\ IsNone(args.figheight)
                 THEN err = ValueError(NoFigsizeMsg)
                 ELSE IF WrongLength(args.hsep, args.columns)
                 THEN err = ValueError(HsepLengthMsg)
                 ELSE err = ValueError(VsepLengthMsg)
        /\ err \in {ValueError(HsepLengthMsg), ValueError(VsepLengthMsg)} =>
              NamesWrongArgument
        /\ ScalarBroadcast

\* columns=3 with hsep=[1] (length 1, expected 2) fails naming hsep.
C7_Witness ==
    /\ last = "PanelSizeLocator"
    /\ args.columns = 3 /\ args.hsep = Sequence(<<1>>)
    /\ ~WrongLength(args.vsep, args.rows)
    /\ err = ValueError(HsepLengthMsg)
    /\ loc = NoLocator

\* Exactly one of figwidth and figheight was given to a panel_size that
\* returned.
OneGiven ==
    /\ last = "panel_size" /\ err = NoError
    /\ IsNone(args.figwidth) # IsNone(args.figheight)

\* The formulas of C8 for the dimension that is computed from the figure size
\* and the one that is derived from it, with the factor f for (panelratio or 1).
C8_Formulas(f) ==
    LET panelwidth == ret[1]
        panelheight == ret[2]
    IN  IF IsNone(args.figwidth)
        THEN /\ RMul(panelheight, R(args.rows)) =
                   RSub(args.figheight[1],
                        RAdd(SepTotal(args.vsep, args.rows),
                             RAdd(args.padtop, args.padbottom)))
             /\ panelwidth = RMul(f, panelheight)
        ELSE /\ RMul(panelwidth, R(args.columns)) =
                   RSub(args.figwidth[1],
                        RAdd(SepTotal(args.hsep, args.columns),
                             RAdd(args.padleft, args.padright)))
             /\ RMul(f, panelheight) = panelwidth

(* C8 as stated: with exactly one of figwidth and figheight given, panel_size *)
(* computes that dimension of the panel from the figure size and derives the  *)
(* other so that panelwidth / panelheight is panelratio when one is supplied  *)
(* and 1 when it is absent.                                                   *)
C8_AsStated ==
    OneGiven =>
        /\ C8_Formulas(IF IsNone(args.panelratio) THEN ROne ELSE args.panelratio[1])
        /\ ret[2] # RZero
        /\ RDiv(ret[1], ret[2]) =
              (IF IsNone(args.panelratio) THEN ROne ELSE args.panelratio[1])

(* C8 as amended: ... so that panelwidth / panelheight is panelratio when a   *)
(* non-zero one is supplied, and 1 when it is absent or 0.                    *)
C8_PanelRatio ==
    OneGiven =>
        LET f == IF IsNone(args.panelratio) \/ args.panelratio = Some(RZero)
                 THEN ROne ELSE args.panelratio[1]
        IN  /\ C8_Formulas(f)
            /\ ret[2] # RZero
            /\ RDiv(ret[1], ret[2]) = f

\* Only figheight given, with panelratio 2: the panel is twice as wide as high.
C8_Witness ==
    /\ OneGiven
    /\ IsNone(args.figwidth) /\ args.figheight = Some(R(52))
    /\ args.panelratio = Some(R(2))
    /\ args.rows = 2 /\ args.vsep = Scalar(2)
    /\ args.padtop = R(5) /\ args.padbottom = R(5)
    /\ ret = <<R(40), R(20)>>

\* What panel_size works out for the arguments a before it tests them.
ComputedWidth(a) ==
    WidthOfPanel(a.figwidth[1], SelfHsep(a.hsep, a.columns), a.padleft,
                 a.padright, a.columns)

ComputedHeight(a) ==
    HeightOfPanel(a.figheight[1], SelfVsep(a.vsep, a.rows), a.padtop,
                  a.padbottom, a.rows)

\* panel_size rejects a for a panel dimension <= 0, and the width (the height)
\* is the one that is.
SepsFit(a) == ~WrongLength(a.hsep, a.columns) /\ ~WrongLength(a.vsep, a.rows)

WidthInsufficient(a) ==
    /\ SepsFit(a) /\ ~IsNone(a.figwidth)
    /\ RLeq(ComputedWidth(a), RZero)
    /\ IsNone(a.figheight) \/ RLt(RZero, ComputedHeight(a))

HeightInsufficient(a) ==
    /\ SepsFit(a) /\ ~IsNone(a.figheight)
    /\ RLeq(ComputedHeight(a), RZero)
    /\ IsNone(a.figwidth) \/ RLt(RZero, ComputedWidth(a))

\* The arguments of the last call with another figure size.
WithFigureSize(a, figwidth, figheight) ==
    [a EXCEPT !.figwidth = figwidth, !.figheight = figheight]

(* C9: a panel_size call rejected because the panel width is <= 0 raises an  *)
(* error that no call rejected because the panel height is <= 0 raises, in   *)
(* every branch: the two causes never produce the same error.                *)
C9_WidthAndHeightDistinguished ==
    FigureCall /\ WidthInsufficient(args) =>
        /\ err.type = "ValueError"
        /\ \A figwidth \in Opt({R(v) : v \in FigWidths}),
              figheight \in Opt({R(v) : v \in FigHeights}) :
              LET b == WithFigureSize(args, figwidth, figheight)
              IN  HeightInsufficient(b) => panel_size(b).err # err

(* C10: a FigureSizeLocator, once built, stores the figure size it was asked *)
(* for: figwidth is the figwidth argument when one was given, figheight the  *)
(* figheight argument when one was given.                                    *)
C10_FigureSizeRoundTrip ==
    IsFigureSizeLocator =>
        /\ ~IsNone(args.figwidth) => loc.figwidth = args.figwidth[1]
        /\ ~IsNone(args.figheight) => loc.figheight = args.figheight[1]

\* Only figwidth given, on a grid whose panels are not square: the width is the
\* one asked for, the height the one that follows from it.
C10_Witness ==
    /\ IsFigureSizeLocator /\ last = "FigureSizeLocator"
    /\ args.figwidth = Some(R(42)) /\ IsNone(args.figheight)
    /\ args.panelratio = Some(R(2))
    /\ args.columns = 3 /\ args.hsep = Sequence(<<1, 2>>)
    /\ loc.figwidth = R(42)
    /\ loc.panelwidth # loc.panelheight

====
